---- MODULE Spec2Model ----
(***************************************************************************)
(* Traceability extraction for GitHub issues: the type classifier, the     *)
(* link extractors and the graph/metrics build of                          *)
(* scripts/github-issues-to-traceability-json.py, and the link extractor,  *)
(* the paged fetch and the matrix of scripts/github-traceability-report.py.*)
(*                                                                         *)
(* Text is modelled at two levels.  Titles, labels and type names are      *)
(* sequences of one-character strings, so that prefix matching, case       *)
(* conversion and substring search are computed as Python computes them.   *)
(* Issue bodies are sequences of lexemes (see the section on bodies).      *)
(***************************************************************************)
EXTENDS Integers, Sequences, FiniteSets, TLC

\* ------------------------------------------------------------------------
\* Characters and strings
\* ------------------------------------------------------------------------

ALPHA_LOWER ==
    <<"a","b","c","d","e","f","g","h","i","j","k","l","m","n","o","p","q","r","s","t","u","v","w","x","y","z">>

ALPHA_UPPER ==
    <<"A","B","C","D","E","F","G","H","I","J","K","L","M","N","O","P","Q","R","S","T","U","V","W","X","Y","Z">>

\* str.upper() on one ASCII character.
upper_char(c) ==
    IF \E i \in DOMAIN ALPHA_LOWER : ALPHA_LOWER[i] = c
    THEN ALPHA_UPPER[CHOOSE i \in DOMAIN ALPHA_LOWER : ALPHA_LOWER[i] = c]
    ELSE c

\* str.lower() on one ASCII character.
lower_char(c) ==
    IF \E i \in DOMAIN ALPHA_UPPER : ALPHA_UPPER[i] = c
    THEN ALPHA_LOWER[CHOOSE i \in DOMAIN ALPHA_UPPER : ALPHA_UPPER[i] = c]
    ELSE c

\* str.upper()
upper(s) ==
    [i \in 1..Len(s) |-> upper_char(s[i])]

\* str.lower()
lower(s) ==
    [i \in 1..Len(s) |-> lower_char(s[i])]

\* Python's  sub in s  for strings.
contains(s, sub) ==
    \E i \in 1..(Len(s) - Len(sub) + 1) : SubSeq(s, i, i + Len(sub) - 1) = sub

\* ------------------------------------------------------------------------
\* Type names, label strings and the substrings the classifier looks for
\* ------------------------------------------------------------------------

T_StR ==
    <<"S","t","R">>

T_REQ_F ==
    <<"R","E","Q","-","F">>

T_REQ_NF ==
    <<"R","E","Q","-","N","F">>

T_ADR ==
    <<"A","D","R">>

T_ARC_C ==
    <<"A","R","C","-","C">>

T_QA_SC ==
    <<"Q","A","-","S","C">>

T_TEST ==
    <<"T","E","S","T">>

T_UNKNOWN ==
    <<"U","N","K","N","O","W","N">>

L_type_stakeholder_requirement ==
    <<"t","y","p","e",":","s","t","a","k","e","h","o","l","d","e","r","-","r","e","q","u","i","r","e","m","e","n","t">>

L_type_requirement_functional ==
    <<"t","y","p","e",":","r","e","q","u","i","r","e","m","e","n","t",":","f","u","n","c","t","i","o","n","a","l">>

L_type_requirement_non_functional ==
    <<"t","y","p","e",":","r","e","q","u","i","r","e","m","e","n","t",":","n","o","n","-","f","u","n","c","t","i","o","n","a","l">>

L_type_architecture_decision ==
    <<"t","y","p","e",":","a","r","c","h","i","t","e","c","t","u","r","e",":","d","e","c","i","s","i","o","n">>

L_type_architecture_component ==
    <<"t","y","p","e",":","a","r","c","h","i","t","e","c","t","u","r","e",":","c","o","m","p","o","n","e","n","t">>

L_type_architecture_quality_scenario ==
    <<"t","y","p","e",":","a","r","c","h","i","t","e","c","t","u","r","e",":","q","u","a","l","i","t","y","-","s","c","e","n","a","r","i","o">>

L_type_test_case ==
    <<"t","y","p","e",":","t","e","s","t","-","c","a","s","e">>

L_type_test_plan ==
    <<"t","y","p","e",":","t","e","s","t","-","p","l","a","n">>

L_stakeholder_requirement ==
    <<"s","t","a","k","e","h","o","l","d","e","r","-","r","e","q","u","i","r","e","m","e","n","t">>

L_functional_requirement ==
    <<"f","u","n","c","t","i","o","n","a","l","-","r","e","q","u","i","r","e","m","e","n","t">>

L_non_functional ==
    <<"n","o","n","-","f","u","n","c","t","i","o","n","a","l">>

L_architecture_decision ==
    <<"a","r","c","h","i","t","e","c","t","u","r","e","-","d","e","c","i","s","i","o","n">>

L_architecture_component ==
    <<"a","r","c","h","i","t","e","c","t","u","r","e","-","c","o","m","p","o","n","e","n","t">>

L_quality_scenario ==
    <<"q","u","a","l","i","t","y","-","s","c","e","n","a","r","i","o">>

L_test_case ==
    <<"t","e","s","t","-","c","a","s","e">>

L_test_plan ==
    <<"t","e","s","t","-","p","l","a","n">>

\* Labels outside label_map: the phase labels main() queries, and others.

L_phase_01_stakeholder_requirements ==
    <<"p","h","a","s","e",":","0","1","-","s","t","a","k","e","h","o","l","d","e","r","-","r","e","q","u","i","r","e","m","e","n","t","s">>

L_phase_02_requirements ==
    <<"p","h","a","s","e",":","0","2","-","r","e","q","u","i","r","e","m","e","n","t","s">>

L_phase_03_architecture ==
    <<"p","h","a","s","e",":","0","3","-","a","r","c","h","i","t","e","c","t","u","r","e">>

L_phase_07_verification_validation ==
    <<"p","h","a","s","e",":","0","7","-","v","e","r","i","f","i","c","a","t","i","o","n","-","v","a","l","i","d","a","t","i","o","n">>

L_unit_tests ==
    <<"u","n","i","t","-","t","e","s","t","s">>

L_bug ==
    <<"b","u","g">>

L_Quality ==
    <<"Q","u","a","l","i","t","y">>

L_non_functional_req ==
    <<"n","o","n","-","f","u","n","c","t","i","o","n","a","l","-","r","e","q">>

W_stakeholder ==
    <<"s","t","a","k","e","h","o","l","d","e","r">>

W_functional ==
    <<"f","u","n","c","t","i","o","n","a","l">>

W_non ==
    <<"n","o","n">>

W_non_functional ==
    <<"n","o","n","-","f","u","n","c","t","i","o","n","a","l">>

W_decision ==
    <<"d","e","c","i","s","i","o","n">>

W_component ==
    <<"c","o","m","p","o","n","e","n","t">>

W_quality ==
    <<"q","u","a","l","i","t","y">>

W_scenario ==
    <<"s","c","e","n","a","r","i","o">>

W_test ==
    <<"t","e","s","t">>

\* label_map of get_requirement_type: <<label, type>> pairs.
label_map ==
    << <<L_type_stakeholder_requirement, T_StR>>,
       <<L_type_requirement_functional, T_REQ_F>>,
       <<L_type_requirement_non_functional, T_REQ_NF>>,
       <<L_type_architecture_decision, T_ADR>>,
       <<L_type_architecture_component, T_ARC_C>>,
       <<L_type_architecture_quality_scenario, T_QA_SC>>,
       <<L_type_test_case, T_TEST>>,
       <<L_type_test_plan, T_TEST>>,
       <<L_stakeholder_requirement, T_StR>>,
       <<L_functional_requirement, T_REQ_F>>,
       <<L_non_functional, T_REQ_NF>>,
       <<L_architecture_decision, T_ADR>>,
       <<L_architecture_component, T_ARC_C>>,
       <<L_quality_scenario, T_QA_SC>>,
       <<L_test_case, T_TEST>>,
       <<L_test_plan, T_TEST>> >>

\* ------------------------------------------------------------------------
\* Type classifier: get_requirement_type(title, labels)
\* ------------------------------------------------------------------------

\* The alternation of the title regex, in its order.
TYPE_TOKENS ==
    <<T_StR, T_REQ_F, T_REQ_NF, T_ADR, T_ARC_C, T_QA_SC, T_TEST>>

\* re.match(r'^(StR|REQ-F|REQ-NF|ADR|ARC-C|QA-SC|TEST)', title, re.IGNORECASE):
\* group(1), the text of the title the first matching alternative covers,
\* or the empty string when nothing matches (a match is never empty).
title_match(title) ==
    LET hits == { k \in DOMAIN TYPE_TOKENS :
                    /\ Len(title) >= Len(TYPE_TOKENS[k])
                    /\ lower(SubSeq(title, 1, Len(TYPE_TOKENS[k])))
                         = lower(TYPE_TOKENS[k]) }
        first == CHOOSE k \in hits : \A j \in hits : k <= j
    IN  IF hits = {} THEN <<>> ELSE SubSeq(title, 1, Len(TYPE_TOKENS[first]))

\* label in label_map
label_in_map(label) ==
    \E k \in DOMAIN label_map : label_map[k][1] = label

\* label_map[label]
label_map_get(label) ==
    label_map[CHOOSE k \in DOMAIN label_map : label_map[k][1] = label][2]

\* The if/elif chain on one label's lower-cased text; <<>> when no branch
\* is taken.
substring_type(label_lower) ==
    IF contains(label_lower, W_stakeholder) THEN T_StR
    ELSE IF contains(label_lower, W_functional) /\ ~contains(label_lower, W_non)
         THEN T_REQ_F
    ELSE IF contains(label_lower, W_non_functional) THEN T_REQ_NF
    ELSE IF contains(label_lower, W_decision) THEN T_ADR
    ELSE IF contains(label_lower, W_component) THEN T_ARC_C
    ELSE IF contains(label_lower, W_quality) \/ contains(label_lower, W_scenario)
         THEN T_QA_SC
    ELSE IF contains(label_lower, W_test) THEN T_TEST
    ELSE <<>>

\* The  for label in labels  loop from position i on: per label, the exact
\* lookup and then the substring chain, returning at the first hit.
RECURSIVE label_scan(_, _)
label_scan(labels, i) ==
    IF i > Len(labels) THEN T_UNKNOWN
    ELSE IF label_in_map(labels[i]) THEN label_map_get(labels[i])
    ELSE IF substring_type(lower(labels[i])) # <<>>
         THEN substring_type(lower(labels[i]))
    ELSE label_scan(labels, i + 1)

get_requirement_type(title, labels) ==
    IF title_match(title) # <<>>
    THEN upper(title_match(title))
    ELSE label_scan(labels, 1)

\* ------------------------------------------------------------------------
\* Issue bodies
\*
\* A body is a sequence of lexemes, and its text is their concatenation:
\*   "**"      the emphasis marker            ":"  "-"  ","   themselves
\*   " "       one blank                      "\n" one line break
\*   "##"      the two hashes of a heading
\*   "phrase"  a label phrase, p its text (e.g. "Traces to")
\*   "ref"     a reference marker: "#" and the decimal digits of n
\*   "text"    a word of prose without "#", "*", ":" or a line break
\* The regular expressions of the extractors are matched lexeme by lexeme.
\* ------------------------------------------------------------------------

BOLD ==
    [k |-> "**", p |-> "", n |-> 0]

COLON ==
    [k |-> ":", p |-> "", n |-> 0]

DASH ==
    [k |-> "-", p |-> "", n |-> 0]

COMMA ==
    [k |-> ",", p |-> "", n |-> 0]

SP ==
    [k |-> " ", p |-> "", n |-> 0]

NL ==
    [k |-> "\n", p |-> "", n |-> 0]

HASHES ==
    [k |-> "##", p |-> "", n |-> 0]

\* What is read beyond the end of the text: nothing.
EOT ==
    [k |-> "eot", p |-> "", n |-> 0]

Phrase(p) ==
    [k |-> "phrase", p |-> p, n |-> 0]

Ref(n) ==
    [k |-> "ref", p |-> "", n |-> n]

Text(p) ==
    [k |-> "text", p |-> p, n |-> 0]

at(body, i) ==
    IF i \in 1..Len(body) THEN body[i] ELSE EOT

\* \s
is_ws(t) ==
    t.k \in {" ", "\n"}

\* A lexeme with a "#" in it: what [^#] does not match.
has_hash(t) ==
    t.k \in {"ref", "##"}

\* The position after \s* matched from position i.
RECURSIVE skip_ws(_, _)
skip_ws(body, i) ==
    IF i <= Len(body) /\ is_ws(body[i]) THEN skip_ws(body, i + 1) ELSE i

\* The position of the first lexeme with a "#" at or after i (Len + 1: none).
RECURSIVE next_hash(_, _)
next_hash(body, i) ==
    IF i > Len(body) \/ has_hash(body[i]) THEN i ELSE next_hash(body, i + 1)

\* ^ under re.MULTILINE: the start of the text or just after a line break.
line_start(body, i) ==
    i = 1 \/ at(body, i - 1) = NL

\* "**" label "**" ":" at positions i .. i+3, the label one of `labels`.
bold_label_at(body, i, labels) ==
    /\ at(body, i) = BOLD
    /\ at(body, i + 1).k = "phrase" /\ at(body, i + 1).p \in labels
    /\ at(body, i + 2) = BOLD
    /\ at(body, i + 3) = COLON

\* ------------------------------------------------------------------------
\* Link extractor of the JSON script: extract_issue_links(body)
\* ------------------------------------------------------------------------

\* The order in which the pattern dictionaries hold their keys.
CATEGORIES ==
    <<"traces_to", "depends_on", "verified_by", "implemented_by">>

\* The label alternatives of each regular expression, one spelling for each
\* phrase it accepts (matching ignores case; an optional letter gives two).
\* patterns[...][0] and [1] share their labels.
patterns ==
    [ traces_to      |-> {"Traces to", "Trace to", "Parent", "Traces-to"},
      depends_on     |-> {"Depends on", "Depend on", "Depends-on"},
      verified_by    |-> {"Verified by", "Test", "Verified-by",
                          "Verifies Requirements", "Verifies Requirement"},
      implemented_by |-> {"Implemented by", "Implements", "Implement",
                          "Implemented-by"} ]

section_patterns ==
    [ traces_to      |-> {"Traces to", "Trace to", "Parent", "Satisfies",
                          "Addresses", "Traces to Requirements",
                          "Parent Requirements", "Satisfies Requirements",
                          "Addresses Requirements", "Addresses Requirement"},
      depends_on     |-> {"Depends on", "Depend on", "Dependencies", "Required"},
      verified_by    |-> {"Verified by", "Test", "Validates", "Validate",
                          "Verifies", "Verified by Requirements",
                          "Test Requirements", "Validates Requirements",
                          "Verifies Requirements", "Verifies Requirement"},
      implemented_by |-> {"Implemented by", "Implements", "Implement",
                          "Implemented by Requirements",
                          "Implements Requirements", "Implements Requirement",
                          "Implement Requirements"} ]

\* Python keeps the keys in the order traces_to, implemented_by, verified_by.
ARCHITECTURE_CATEGORIES ==
    <<"traces_to", "implemented_by", "verified_by">>

architecture_patterns ==
    [ traces_to      |-> {"Addresses Requirements", "Addresses Requirement",
                          "Satisfies Requirements", "Satisfies Requirement"},
      implemented_by |-> {"Components Affected", "Component Affected",
                          "Architecture Decisions", "Architecture Decision"},
      verified_by    |-> {"Quality Scenarios", "Quality Scenario",
                          "Requirements Verified", "Requirement Verified"} ]

\* A match is <<captured number, position after the match>>; <<>> is no match.

\* \*\*(?:labels)\*\*:\s*#(\d+)  starting at position i.
match_bold(body, i, labels) ==
    LET j == skip_ws(body, i + 4)
    IN  IF bold_label_at(body, i, labels) /\ at(body, j).k = "ref"
        THEN <<body[j].n, j + 1>>
        ELSE <<>>

\* (?:^|\n)(?:labels):\s*#(\d+)  starting at position i: either the label
\* stands at a line start, or the match takes the line break before it.
match_plain(body, i, labels) ==
    LET s == IF at(body, i) = NL THEN i + 1 ELSE i
        j == skip_ws(body, s + 2)
    IN  IF /\ (at(body, i) = NL \/ line_start(body, i))
           /\ at(body, s).k = "phrase" /\ at(body, s).p \in labels
           /\ at(body, s + 1) = COLON
           /\ at(body, j).k = "ref"
        THEN <<body[j].n, j + 1>>
        ELSE <<>>

\* \s*-?\s*  covers the lexemes of positions a .. b exactly.
bullet_indent(body, a, b) ==
    /\ \A x \in a..b : is_ws(body[x]) \/ body[x] = DASH
    /\ Cardinality({x \in a..b : body[x] = DASH}) <= 1

\* \*\*(?:labels)\*\*:[^#]*?(?:^|\n)\s*-?\s*#(\d+)  starting at position i:
\* [^#]*? cannot pass a "#", so the marker is the first "#" after the colon,
\* and a line break has to precede it with only blanks and one dash between.
match_section(body, i, labels) ==
    LET h == next_hash(body, i + 4)
    IN  IF /\ bold_label_at(body, i, labels)
           /\ at(body, h).k = "ref"
           /\ \E j \in (i + 4)..(h - 1) :
                body[j] = NL /\ bullet_indent(body, j + 1, h - 1)
        THEN <<body[h].n, h + 1>>
        ELSE <<>>

\* \*\*(?:labels)\*\*:[^#]*?#(\d+)  starting at position i.
match_architecture(body, i, labels) ==
    LET h == next_hash(body, i + 4)
    IN  IF bold_label_at(body, i, labels) /\ at(body, h).k = "ref"
        THEN <<body[h].n, h + 1>>
        ELSE <<>>

match_at(kind, body, i, labels) ==
    CASE kind = "bold"         -> match_bold(body, i, labels)
      [] kind = "plain"        -> match_plain(body, i, labels)
      [] kind = "section"      -> match_section(body, i, labels)
      [] kind = "architecture" -> match_architecture(body, i, labels)

\* re.findall from position i on: the captures of the leftmost matches that
\* do not overlap, in the order of the text.
RECURSIVE findall(_, _, _, _)
findall(kind, body, i, labels) ==
    IF i > Len(body) THEN <<>>
    ELSE LET m == match_at(kind, body, i, labels)
         IN  IF m # <<>>
             THEN <<m[1]>> \o findall(kind, body, m[2], labels)
             ELSE findall(kind, body, i + 1, labels)

\* The headings the section scan looks for (ignoring case).
TRACEABILITY_HEADINGS ==
    {"Traceability", "Traces To", "Traces to"}

\* The end (exclusive) of  .*?(?=##|$)  matched from position j under
\* MULTILINE and DOTALL: the lazy scan stops where "##" follows or where a
\* line ends, whichever comes first.
RECURSIVE section_end(_, _)
section_end(body, j) ==
    IF j > Len(body) \/ body[j] = HASHES \/ body[j] = NL THEN j
    ELSE section_end(body, j + 1)

\* ##\s+(?:Traceability|Traces\s+To).*?(?=##|$)  starting at position i:
\* <<first position, position after the match>>, or <<>>.
match_traceability_section(body, i) ==
    LET j == skip_ws(body, i + 1)
    IN  IF /\ at(body, i) = HASHES
           /\ j > i + 1
           /\ at(body, j).k = "phrase" /\ at(body, j).p \in TRACEABILITY_HEADINGS
        THEN <<i, section_end(body, j + 1)>>
        ELSE <<>>

\* traceability_sections: the matched pieces of the body, in order.
RECURSIVE traceability_sections(_, _)
traceability_sections(body, i) ==
    IF i > Len(body) THEN <<>>
    ELSE LET m == match_traceability_section(body, i)
         IN  IF m # <<>>
             THEN <<SubSeq(body, m[1], m[2] - 1)>>
                    \o traceability_sections(body, m[2])
             ELSE traceability_sections(body, i + 1)

\* re.findall(r'#(\d+)', section)
RECURSIVE all_refs_of(_)
all_refs_of(section) ==
    IF section = <<>> THEN <<>>
    ELSE IF Head(section).k = "ref"
         THEN <<Head(section).n>> \o all_refs_of(Tail(section))
         ELSE all_refs_of(Tail(section))

in_list(x, list) ==
    \E i \in DOMAIN list : list[i] = x

\* The loop  for ref in all_refs: if ref_int not in ...: append.
RECURSIVE append_new(_, _)
append_new(list, refs) ==
    IF refs = <<>> THEN list
    ELSE append_new(IF in_list(Head(refs), list) THEN list
                    ELSE Append(list, Head(refs)),
                    Tail(refs))

\* The loop over traceability_sections.
RECURSIVE add_sections(_, _)
add_sections(list, sections) ==
    IF sections = <<>> THEN list
    ELSE add_sections(append_new(list, all_refs_of(Head(sections))),
                      Tail(sections))

\* list(dict.fromkeys(list)): the first occurrence of each element, in order.
RECURSIVE remove_duplicates(_)
remove_duplicates(list) ==
    IF list = <<>> THEN <<>>
    ELSE LET front == remove_duplicates(SubSeq(list, 1, Len(list) - 1))
             last  == list[Len(list)]
         IN  IF in_list(last, front) THEN front ELSE Append(front, last)

\* links[c] after the three pattern loops.
pattern_links(body, c) ==
    findall("bold", body, 1, patterns[c])
      \o findall("plain", body, 1, patterns[c])
      \o findall("section", body, 1, section_patterns[c])
      \o (IF c \in DOMAIN architecture_patterns
          THEN findall("architecture", body, 1, architecture_patterns[c])
          ELSE <<>>)

\* A dictionary is a function on its keys; <<>> is the empty dictionary.
extract_issue_links(body) ==
    IF body = <<>> THEN <<>>
    ELSE [ c \in {CATEGORIES[k] : k \in DOMAIN CATEGORIES} |->
             remove_duplicates(
               IF c = "traces_to"
               THEN add_sections(pattern_links(body, c),
                                 traceability_sections(body, 1))
               ELSE pattern_links(body, c)) ]

\* ------------------------------------------------------------------------
\* Link extractor of the report script: extract_links(issue_body)
\* ------------------------------------------------------------------------

REPORT_CATEGORIES ==
    {"traces_to", "depends_on", "verified_by", "implemented_by", "refined_by"}

\* The phrases each expression accepts; only the first letter may be of
\* either case.
report_patterns ==
    [ traces_to      |-> {"Traces to", "traces to", "Trace to", "trace to"},
      depends_on     |-> {"Depends on", "depends on", "Depend on", "depend on"},
      verified_by    |-> {"Verified by", "verified by"},
      implemented_by |-> {"Implemented by", "implemented by"},
      refined_by     |-> {"Refined by", "refined by"} ]

\* [Tt]races?\s+to:?\s*#(\d+)  and its siblings, starting at position i.
match_report(body, i, labels) ==
    LET c == IF at(body, i + 1) = COLON THEN i + 2 ELSE i + 1
        j == skip_ws(body, c)
    IN  IF /\ at(body, i).k = "phrase" /\ at(body, i).p \in labels
           /\ at(body, j).k = "ref"
        THEN <<body[j].n, j + 1>>
        ELSE <<>>

RECURSIVE report_findall(_, _, _)
report_findall(body, i, labels) ==
    IF i > Len(body) THEN <<>>
    ELSE LET m == match_report(body, i, labels)
         IN  IF m # <<>>
             THEN <<m[1]>> \o report_findall(body, m[2], labels)
             ELSE report_findall(body, i + 1, labels)

extract_links(issue_body) ==
    IF issue_body = <<>>
    THEN [c \in REPORT_CATEGORIES |-> <<>>]
    ELSE [c \in REPORT_CATEGORIES |-> report_findall(issue_body, 1, report_patterns[c])]

\* ------------------------------------------------------------------------
\* State
\* ------------------------------------------------------------------------

VARIABLES
    \* one call of get_requirement_type: its arguments, its result
    in_title, in_labels, out_type, cpc,
    \* one call of each link extractor on the same body
    in_body, out_links, out_report, xpc,
    \* main() of the JSON script: the repository it reads, its position, and
    \* its local variables
    repo, pc, cursor, all_issues, items, forward_links, backward_links,
    requirements, requirements_with_adr, requirements_with_scenario,
    requirements_with_test, requirements_with_any_link, metrics,
    \* the output of the previous run over the same issue list
    previous_output,
    \* a run of either script against a collaborator whose requests may fail:
    \* which script runs, whether a request failed and whether one succeeded,
    \* the exit status and what the run has written; page and issues are the
    \* local variables of fetch_all_requirements of the report script
    script, request_failed, request_succeeded, exit_code, written, page, issues

classify_vars ==
    <<in_title, in_labels, out_type, cpc>>

extract_vars ==
    <<in_body, out_links, out_report, xpc>>

main_vars ==
    <<repo, pc, cursor, all_issues, items, forward_links, backward_links,
      requirements, requirements_with_adr, requirements_with_scenario,
      requirements_with_test, requirements_with_any_link, metrics,
      previous_output>>

fetch_vars ==
    <<script, request_failed, request_succeeded, exit_code, written, page, issues>>

vars ==
    <<classify_vars, extract_vars, main_vars, fetch_vars>>

\* The parts of the state a specification does not use stay as they are here.
ClassifyIdle ==
    in_title = <<>> /\ in_labels = <<>> /\ out_type = <<>> /\ cpc = "idle"

ExtractIdle ==
    in_body = <<>> /\ out_links = <<>> /\ out_report = <<>> /\ xpc = "idle"

MainIdle ==
    /\ repo = <<>> /\ pc = "idle" /\ cursor = 0 /\ all_issues = <<>>
    /\ items = <<>> /\ forward_links = <<>> /\ backward_links = <<>>
    /\ requirements = <<>> /\ requirements_with_adr = {}
    /\ requirements_with_scenario = {} /\ requirements_with_test = {}
    /\ requirements_with_any_link = {} /\ metrics = <<>>
    /\ previous_output = <<>>

FetchIdle ==
    /\ script = "idle" /\ request_failed = FALSE /\ request_succeeded = FALSE
    /\ exit_code = 0 /\ written = <<>> /\ page = 0 /\ issues = <<>>

\* ------------------------------------------------------------------------
\* The classifier on bounded titles and label lists
\* ------------------------------------------------------------------------

MaxLabels ==
    2

TITLE_REST ==
    <<"-","0","1","2",":"," ","x">>

TITLE_LOGIN ==
    <<"L","o","g","i","n"," ","p","a","g","e">>

TITLE_FIX ==
    <<"F","i","x"," ","A","D","R","-","3">>

TITLE_REQ ==
    <<"R","E","Q","-","1","2">>

\* Each type token as the regular expression spells it, in lower case and in
\* upper case.
TokenSpellings ==
    UNION { {TYPE_TOKENS[k], lower(TYPE_TOKENS[k]), upper(TYPE_TOKENS[k])} :
            k \in DOMAIN TYPE_TOKENS }

\* Titles with a token in front (alone or followed by text), titles with a
\* token elsewhere or cut short, and titles without any.
TitleSet ==
    { tok \o rest : tok \in TokenSpellings, rest \in {<<>>, TITLE_REST} }
      \cup {TITLE_LOGIN, TITLE_FIX, TITLE_REQ, <<>>}

\* Exact labels of both conventions, labels only the substring chain knows,
\* and labels nothing knows.
LabelSet ==
    { L_type_requirement_functional, L_type_architecture_decision,
      L_architecture_decision, L_non_functional, L_test_case,
      L_phase_01_stakeholder_requirements, L_phase_03_architecture,
      L_unit_tests, L_Quality, L_non_functional_req, L_bug }

InitClassify ==
    /\ in_title \in TitleSet
    /\ in_labels = <<>>
    /\ out_type = <<>>
    /\ cpc = "input"
    /\ ExtractIdle
    /\ MainIdle
    /\ FetchIdle

\* The caller puts one more label on the issue.
AddLabel ==
    /\ cpc = "input"
    /\ Len(in_labels) < MaxLabels
    /\ \E l \in LabelSet : in_labels' = Append(in_labels, l)
    /\ UNCHANGED <<in_title, out_type, cpc, extract_vars, main_vars, fetch_vars>>

Classify ==
    /\ cpc = "input"
    /\ out_type' = get_requirement_type(in_title, in_labels)
    /\ cpc' = "done"
    /\ UNCHANGED <<in_title, in_labels, extract_vars, main_vars, fetch_vars>>

NextClassify ==
    AddLabel \/ Classify

SpecClassify ==
    InitClassify /\ [][NextClassify]_vars

\* ------------------------------------------------------------------------
\* The extractors on bounded bodies
\* ------------------------------------------------------------------------

MaxLines ==
    3

\* The numbers the bodies refer to.
BodyRefs ==
    {3, 9}

\* "**p**: #n"
bold_line(p, n) ==
    <<BOLD, Phrase(p), BOLD, COLON, SP, Ref(n)>>

\* "p: #n"
plain_line(p, n) ==
    <<Phrase(p), COLON, SP, Ref(n)>>

\* "p: #n, #m"
list_line(p, n, m) ==
    <<Phrase(p), COLON, SP, Ref(n), COMMA, SP, Ref(m)>>

\* "**p**:"
header_line(p) ==
    <<BOLD, Phrase(p), BOLD, COLON>>

\* "- #n"
bullet_line(n) ==
    <<DASH, SP, Ref(n)>>

\* "## p"
heading_line(p) ==
    <<HASHES, SP, Phrase(p)>>

\* "## p #n"
heading_ref_line(p, n) ==
    <<HASHES, SP, Phrase(p), SP, Ref(n)>>

\* "see #n"
prose_line(n) ==
    <<Text("see"), SP, Ref(n)>>

LineSet ==
    { bold_line(p, n) : p \in {"Traces to", "Implements Requirements", "Verified by"},
                        n \in BodyRefs }
      \cup { plain_line(p, n) : p \in {"Traces to", "Verifies Requirements", "Verified by"},
                                n \in BodyRefs }
      \cup { list_line("Verifies Requirements", 3, 9) }
      \cup { header_line(p) : p \in {"Implements Requirements", "Addresses Requirements"} }
      \cup { bullet_line(n) : n \in BodyRefs }
      \cup { heading_line("Traceability"), heading_ref_line("Traces To", 9),
             prose_line(3) }

lines_of(b) ==
    IF b = <<>> THEN 0 ELSE 1 + Cardinality({x \in DOMAIN b : b[x] = NL})

InitExtract ==
    /\ in_body = <<>>
    /\ out_links = <<>>
    /\ out_report = <<>>
    /\ xpc = "input"
    /\ ClassifyIdle
    /\ MainIdle
    /\ FetchIdle

\* The author writes one more line.
WriteLine ==
    /\ xpc = "input"
    /\ lines_of(in_body) < MaxLines
    /\ \E l \in LineSet :
         in_body' = IF in_body = <<>> THEN l ELSE in_body \o <<NL>> \o l
    /\ UNCHANGED <<out_links, out_report, xpc, classify_vars, main_vars, fetch_vars>>

Extract ==
    /\ xpc = "input"
    /\ out_links' = extract_issue_links(in_body)
    /\ out_report' = extract_links(in_body)
    /\ xpc' = "done"
    /\ UNCHANGED <<in_body, classify_vars, main_vars, fetch_vars>>

NextExtract ==
    WriteLine \/ Extract

SpecExtract ==
    InitExtract /\ [][NextExtract]_vars

\* ------------------------------------------------------------------------
\* main() of the JSON script: identifiers, dictionaries, the repository
\* ------------------------------------------------------------------------

DIGITS ==
    <<"0","1","2","3","4","5","6","7","8","9">>

\* str(n) for n >= 0
RECURSIVE str_int(_)
str_int(n) ==
    IF n < 10 THEN <<DIGITS[n + 1]>>
    ELSE Append(str_int(n \div 10), DIGITS[(n % 10) + 1])

\* int(s) for a string of decimal digits
RECURSIVE int_str(_)
int_str(s) ==
    IF s = <<>> THEN 0
    ELSE 10 * int_str(SubSeq(s, 1, Len(s) - 1))
           + (CHOOSE d \in 0..9 : DIGITS[d + 1] = s[Len(s)])

\* f"#{n}"
issue_ref(n) ==
    <<"#">> \o str_int(n)

\* The sort key  lambda x: int(x[1:])
sort_key(x) ==
    int_str(Tail(x))

\* The order of two digit strings as strings: by their first different
\* character, a proper prefix first.
string_before(a, b) ==
    \E i \in 1..Len(b) :
        /\ \A j \in 1..(i - 1) : j <= Len(a) /\ a[j] = b[j]
        /\ \/ i = Len(a) + 1
           \/ /\ i <= Len(a)
              /\ int_str(<<a[i]>>) < int_str(<<b[i]>>)

\* sorted(refs) without the key: the identifiers in string order, "#10"
\* before "#2".
sorted_refs_as_strings(refs) ==
    [ i \in 1..Cardinality(refs) |->
        CHOOSE x \in refs :
          Cardinality({y \in refs : string_before(Tail(y), Tail(x))}) = i - 1 ]

\* sorted(refs, key=...) of a set whose elements have different keys.
RECURSIVE sorted_refs(_)
sorted_refs(refs) ==
    IF refs = {} THEN <<>>
    ELSE LET least == CHOOSE x \in refs : \A y \in refs : sort_key(x) <= sort_key(y)
         IN  <<least>> \o sorted_refs(refs \ {least})

\* d[key] = value
dict_set(d, key, value) ==
    [x \in (DOMAIN d) \cup {key} |-> IF x = key THEN value ELSE d[x]]

\* d[key].append(value) on a defaultdict(list)
dict_append(d, key, value) ==
    dict_set(d, key, IF key \in DOMAIN d THEN Append(d[key], value) ELSE <<value>>)

\* The elements of a list, as a set.
elements(list) ==
    {list[k] : k \in DOMAIN list}

\* The label queries of main(), in their order.
requirement_labels ==
    << L_type_stakeholder_requirement, L_type_requirement_functional,
       L_type_requirement_non_functional, L_type_architecture_decision,
       L_type_architecture_component, L_type_architecture_quality_scenario,
       L_type_test_case, L_type_test_plan,
       L_phase_01_stakeholder_requirements, L_phase_02_requirements,
       L_phase_03_architecture, L_phase_07_verification_validation >>

\* A number the repository has no issue for.
NO_ISSUE ==
    [title |-> <<>>, labels |-> <<>>, body |-> <<>>, exists |-> FALSE]

Issue(title, labels, body) ==
    [title |-> title, labels |-> labels, body |-> body, exists |-> TRUE]

\* A set of numbers as a list, highest first: GitHub lists the newest issue
\* first.
RECURSIVE newest_first(_)
newest_first(numbers) ==
    IF numbers = {} THEN <<>>
    ELSE LET top == CHOOSE x \in numbers : \A y \in numbers : y <= x
         IN  <<top>> \o newest_first(numbers \ {top})

\* list(repo.get_issues(labels=[label], state='all')), as issue numbers.
get_issues_labelled(r, label) ==
    newest_first({n \in DOMAIN r : r[n].exists /\ label \in elements(r[n].labels)})

\* list(repo.get_issues(state='all')), as issue numbers.
get_issues_all(r) ==
    newest_first({n \in DOMAIN r : r[n].exists})

\* The inner loop: append the issues not seen before.
RECURSIVE append_unseen(_, _)
append_unseen(list, more) ==
    IF more = <<>> THEN list
    ELSE append_unseen(IF Head(more) \in elements(list) THEN list
                       ELSE Append(list, Head(more)),
                       Tail(more))

\* The loop over requirement_labels from query k on, every query answered.
RECURSIVE fetch_labelled(_, _, _)
fetch_labelled(r, list, k) ==
    IF k > Len(requirement_labels) THEN list
    ELSE fetch_labelled(r,
                        append_unseen(list, get_issues_labelled(r, requirement_labels[k])),
                        k + 1)

\* The fallback: the issues whose title starts with a type token.
fetch_by_title(r) ==
    append_unseen(<<>>, SelectSeq(get_issues_all(r),
                                  LAMBDA n : title_match(r[n].title) # <<>>))

\* all_issues at the end of the fetch phase.
fetch_all(r) ==
    IF fetch_labelled(r, <<>>, 1) # <<>>
    THEN fetch_labelled(r, <<>>, 1)
    ELSE fetch_by_title(r)

\* ------------------------------------------------------------------------
\* main() of the JSON script: the build loop and the metrics
\* ------------------------------------------------------------------------

\* The numbers of all link lists: all_linked_issues, and all_refs before
\* formatting.
linked_numbers(found) ==
    UNION { elements(found[c]) : c \in DOMAIN found }

\* item['references']
references_of(found) ==
    sorted_refs({issue_ref(n) : n \in linked_numbers(found)})

\* item['link_details']: the categories with a link, their targets formatted.
link_details_of(found) ==
    [ c \in {x \in DOMAIN found : found[x] # <<>>} |->
        [k \in DOMAIN found[c] |-> issue_ref(found[c][k])] ]

\* The item of issue number n of repository r, `found` being the links of
\* its body.  The state and the URL of the issue are copied into the item
\* unread and are left out.
item_of(r, n, found) ==
    [ id           |-> issue_ref(n),
      type         |-> get_requirement_type(r[n].title, r[n].labels),
      title        |-> r[n].title,
      labels       |-> r[n].labels,
      references   |-> references_of(found),
      link_details |-> link_details_of(found) ]

\* The loop with a break after its first pass: only the first reference gets
\* its backward entry.
add_backward_first_only(backward, refs, issue_id) ==
    IF refs = <<>> THEN backward
    ELSE dict_append(backward, Head(refs), issue_id)

\* for ref in item['references']: backward_links[ref].append(issue_id)
RECURSIVE add_backward(_, _, _)
add_backward(backward, refs, issue_id) ==
    IF refs = <<>> THEN backward
    ELSE add_backward(dict_append(backward, Head(refs), issue_id), Tail(refs), issue_id)

\* repo.get_issue(n) finds an issue.
has_issue(r, n) ==
    n \in DOMAIN r /\ r[n].exists

\* ref_type of a looked-up issue
ref_type_of(r, n) ==
    get_requirement_type(r[n].title, r[n].labels)

REQUIREMENT_TYPES ==
    {T_REQ_F, T_REQ_NF}

\* The ADR branch adding the identifier of the looked-up issue, f"#{ref_num}",
\* where it adds issue_id.
adr_additions_of_target(r, issue_id, req_type, answered) ==
    { issue_ref(n) : n \in { m \in answered : ref_type_of(r, m) = T_ADR } }

\* What the lookup loop adds to requirements_with_adr for an issue of type
\* req_type, `answered` being the references whose lookup returned an issue.
adr_additions(r, issue_id, req_type, answered) ==
    (IF \E n \in answered : ref_type_of(r, n) = T_ADR THEN {issue_id} ELSE {})
      \cup { issue_ref(n) : n \in { m \in answered :
               /\ ref_type_of(r, m) # T_ADR
               /\ ref_type_of(r, m) # T_QA_SC
               /\ req_type \in {T_ADR, T_ARC_C}
               /\ ref_type_of(r, m) \in REQUIREMENT_TYPES } }

\* What it adds to requirements_with_scenario.
scenario_additions(r, issue_id, answered) ==
    IF \E n \in answered : ref_type_of(r, n) # T_ADR /\ ref_type_of(r, n) = T_QA_SC
    THEN {issue_id} ELSE {}

\* if links.get('verified_by')
has_verified_by(found) ==
    "verified_by" \in DOMAIN found /\ found["verified_by"] # <<>>

\* linked / total * 100, kept exact as a fraction; 0 when there is no total.
coverage_pct(linked, total) ==
    IF total # 0 THEN [num |-> linked * 100, den |-> total]
    ELSE [num |-> 0, den |-> 1]

metric(linked, total) ==
    [coverage_pct |-> coverage_pct(linked, total), total |-> total, linked |-> linked]

\* The metrics dictionary.
metrics_of(total_reqs, any_link, with_adr, with_scenario, with_test) ==
    IF total_reqs > 0
    THEN [ requirement             |-> metric(Cardinality(any_link), total_reqs),
           requirement_to_ADR      |-> metric(Cardinality(with_adr), total_reqs),
           requirement_to_scenario |-> metric(Cardinality(with_scenario), total_reqs),
           requirement_to_test     |-> metric(Cardinality(with_test), total_reqs) ]
    ELSE [ requirement |-> metric(Cardinality(any_link), total_reqs) ]

\* The output dictionary, without the source, the repository name and the
\* time of generation.
output ==
    [ metrics        |-> metrics,
      items          |-> items,
      forward_links  |-> forward_links,
      backward_links |-> backward_links ]

\* ------------------------------------------------------------------------
\* The repositories main() is run on
\* ------------------------------------------------------------------------

MaxIssues ==
    3

\* The issue numbers a repository may use, the first MaxIssues of them.
ISSUE_POOL ==
    <<4, 6, 10, 7, 12>>

IssueNumbers ==
    {ISSUE_POOL[k] : k \in 1..MaxIssues}

TITLE_REQ_NF ==
    <<"R","E","Q","-","N","F","-","0","1","2",":"," ","x">>

TITLE_ADR ==
    <<"A","D","R","-","0","1","2",":"," ","x">>

TITLE_TEST ==
    <<"T","E","S","T","-","0","1","2",":"," ","x">>

\* Lines joined by line breaks.
RECURSIVE join_lines(_)
join_lines(lines) ==
    IF lines = <<>> THEN <<>>
    ELSE IF Len(lines) = 1 THEN lines[1]
    ELSE lines[1] \o <<NL>> \o join_lines(Tail(lines))

\* What an issue of the repository may be: requirements typed by label or
\* by title, architecture decisions with and without a queried label, a
\* test case, a quality scenario; bodies with one or several links, links
\* to the issue itself, to other issues and to number 2, which no
\* repository has.
IssueSet ==
    { Issue(TITLE_LOGIN, <<L_type_requirement_functional>>,
            bold_line("Traces to", 4)),
      Issue(TITLE_REQ_NF, <<L_phase_02_requirements>>,
            join_lines(<<bold_line("Traces to", 10), bold_line("Verified by", 10)>>)),
      Issue(TITLE_LOGIN, <<L_bug, L_type_requirement_functional>>,
            join_lines(<<plain_line("Depends on", 10), bold_line("Traces to", 2)>>)),
      Issue(TITLE_LOGIN, <<L_type_requirement_functional>>,
            join_lines(<<heading_line("Traceability"), bullet_line(6), bullet_line(10)>>)),
      Issue(TITLE_ADR, <<>>, <<>>),
      Issue(TITLE_LOGIN, <<L_type_architecture_decision>>,
            bold_line("Addresses Requirements", 6)),
      Issue(TITLE_TEST, <<L_type_test_case>>,
            list_line("Verifies Requirements", 4, 6)),
      Issue(TITLE_LOGIN, <<L_type_architecture_quality_scenario>>, <<>>) }

RepoSet ==
    [IssueNumbers -> IssueSet \cup {NO_ISSUE}]

\* ------------------------------------------------------------------------
\* main() of the JSON script, step by step
\* ------------------------------------------------------------------------

Init ==
    /\ repo \in RepoSet
    /\ pc = "fetch"
    /\ cursor = 0
    /\ all_issues = <<>>
    /\ items = <<>>
    /\ forward_links = <<>>
    /\ backward_links = <<>>
    /\ requirements = <<>>
    /\ requirements_with_adr = {}
    /\ requirements_with_scenario = {}
    /\ requirements_with_test = {}
    /\ requirements_with_any_link = {}
    /\ metrics = <<>>
    /\ previous_output = <<>>
    /\ ClassifyIdle
    /\ ExtractIdle
    /\ FetchIdle

\* The fetch phase with every query answered, and the empty structures the
\* build starts from.
Fetch ==
    /\ pc = "fetch"
    /\ all_issues' = fetch_all(repo)
    /\ cursor' = 1
    /\ pc' = "build"
    /\ UNCHANGED <<repo, items, forward_links, backward_links, requirements,
                   requirements_with_adr, requirements_with_scenario,
                   requirements_with_test, requirements_with_any_link,
                   metrics, previous_output, classify_vars, extract_vars, fetch_vars>>

\* One pass of  for issue in all_issues.  Each repo.get_issue(ref_num) of a
\* requirement either returns the issue or raises (no such issue, or the
\* request failed); `answered` are the references it returned an issue for.
\* `found` is links and `item` is item, each computed once.
Build ==
    /\ pc = "build"
    /\ cursor <= Len(all_issues)
    /\ \E found \in {extract_issue_links(repo[all_issues[cursor]].body)} :
       \E item \in {item_of(repo, all_issues[cursor], found)} :
           /\ items' = Append(items, item)
           /\ forward_links' = dict_set(forward_links, item.id, item.references)
           /\ backward_links' = add_backward(backward_links, item.references, item.id)
           /\ IF item.type \in REQUIREMENT_TYPES
              THEN \E answered \in SUBSET {n \in linked_numbers(found) : has_issue(repo, n)} :
                     /\ requirements' = Append(requirements, item.id)
                     /\ requirements_with_any_link' =
                          IF item.references # <<>>
                          THEN requirements_with_any_link \cup {item.id}
                          ELSE requirements_with_any_link
                     /\ requirements_with_adr' = requirements_with_adr
                          \cup adr_additions(repo, item.id, item.type, answered)
                     /\ requirements_with_scenario' = requirements_with_scenario
                          \cup scenario_additions(repo, item.id, answered)
                     /\ requirements_with_test' =
                          IF has_verified_by(found)
                          THEN requirements_with_test \cup {item.id}
                          ELSE requirements_with_test
              ELSE UNCHANGED <<requirements, requirements_with_any_link,
                               requirements_with_adr, requirements_with_scenario,
                               requirements_with_test>>
    /\ cursor' = cursor + 1
    /\ UNCHANGED <<repo, pc, all_issues, metrics, previous_output,
                   classify_vars, extract_vars, fetch_vars>>

\* The metrics after the loop; the output is complete.
Metrics ==
    /\ pc = "build"
    /\ cursor > Len(all_issues)
    /\ metrics' = metrics_of(Len(requirements), requirements_with_any_link,
                             requirements_with_adr, requirements_with_scenario,
                             requirements_with_test)
    /\ pc' = "done"
    /\ UNCHANGED <<repo, cursor, all_issues, items, forward_links, backward_links,
                   requirements, requirements_with_adr, requirements_with_scenario,
                   requirements_with_test, requirements_with_any_link,
                   previous_output, classify_vars, extract_vars, fetch_vars>>

Next ==
    Fetch \/ Build \/ Metrics

Spec ==
    Init /\ [][Next]_vars

\* The build and the metrics run again over the same issue list: main()
\* keeps everything it builds in local variables, which start empty.
Rerun ==
    /\ pc = "done"
    /\ previous_output = <<>>
    /\ previous_output' = output
    /\ pc' = "build"
    /\ cursor' = 1
    /\ items' = <<>>
    /\ forward_links' = <<>>
    /\ backward_links' = <<>>
    /\ requirements' = <<>>
    /\ requirements_with_adr' = {}
    /\ requirements_with_scenario' = {}
    /\ requirements_with_test' = {}
    /\ requirements_with_any_link' = {}
    /\ metrics' = <<>>
    /\ UNCHANGED <<repo, all_issues, classify_vars, extract_vars, fetch_vars>>

NextRerun ==
    Fetch \/ Build \/ Metrics \/ Rerun

SpecRerun ==
    Init /\ [][NextRerun]_vars

\* ------------------------------------------------------------------------
\* The report script: fetch_all_requirements() and generate_matrix()
\* ------------------------------------------------------------------------

\* The labels an issue of the report needs one of.
REQUIREMENT_LABELS ==
    << L_stakeholder_requirement, L_functional_requirement, L_non_functional,
       L_architecture_decision, L_architecture_component, L_quality_scenario,
       L_test_case >>

\* label_map of the report script's get_requirement_type.
report_label_map ==
    << <<L_stakeholder_requirement, T_StR>>,
       <<L_functional_requirement, T_REQ_F>>,
       <<L_non_functional, T_REQ_NF>>,
       <<L_architecture_decision, T_ADR>>,
       <<L_architecture_component, T_ARC_C>>,
       <<L_quality_scenario, T_QA_SC>>,
       <<L_test_case, T_TEST>> >>

\* get_requirement_type(labels) of the report script, from label i on: the
\* type of the first label that is a key of its label_map.
RECURSIVE report_label_scan(_, _)
report_label_scan(labels, i) ==
    IF i > Len(labels) THEN T_UNKNOWN
    ELSE IF \E k \in DOMAIN report_label_map : report_label_map[k][1] = labels[i]
         THEN report_label_map[CHOOSE k \in DOMAIN report_label_map :
                                 report_label_map[k][1] = labels[i]][2]
    ELSE report_label_scan(labels, i + 1)

report_get_requirement_type(labels) ==
    report_label_scan(labels, 1)

\* any(label in REQUIREMENT_LABELS for label in labels)
has_requirement_label(labels) ==
    \E k \in DOMAIN labels : labels[k] \in elements(REQUIREMENT_LABELS)

\* The issues of one page of a listing, `size` issues to the page.
page_of(listing, p, size) ==
    IF (p - 1) * size >= Len(listing) THEN <<>>
    ELSE SubSeq(listing, (p - 1) * size + 1,
                IF p * size < Len(listing) THEN p * size ELSE Len(listing))

\* sorted(issues, key=lambda x: x['number'])
RECURSIVE sorted_by_number(_)
sorted_by_number(numbers) ==
    IF numbers = {} THEN <<>>
    ELSE LET least == CHOOSE x \in numbers : \A y \in numbers : x <= y
         IN  <<least>> \o sorted_by_number(numbers \ {least})

\* A title cut to `width` characters, the last three of them dots.
truncated(title, width) ==
    IF Len(title) > width
    THEN SubSeq(title, 1, width - 3) \o <<".", ".", ".">>
    ELSE title

\* One row of the traceability matrix.  The state badge of the issue is
\* printed unread and is left out.
matrix_row(r, n) ==
    [ number |-> issue_ref(n),
      type   |-> report_get_requirement_type(r[n].labels),
      title  |-> truncated(r[n].title, 50),
      links  |-> [ c \in {"traces_to", "depends_on", "verified_by", "implemented_by"} |->
                     extract_links(r[n].body)[c] ] ]

\* A row of the two shorter tables.
short_row(r, n) ==
    [ number |-> issue_ref(n),
      type   |-> report_get_requirement_type(r[n].labels),
      title  |-> truncated(r[n].title, 60) ]

\* verified_reqs: what the test cases trace to.
verified_reqs(r, list) ==
    UNION { elements(extract_links(r[n].body)["traces_to"]) :
            n \in { m \in elements(list) : L_test_case \in elements(r[m].labels) } }

\* What generate_matrix() prints for the issues `list` of repository r: the
\* total, the count of each type, the matrix in the order of the issue
\* numbers, the issues without a parent link and the requirements without a
\* test.
matrix_report(r, list) ==
    [ total      |-> Len(list),
      by_type    |-> [ t \in { report_get_requirement_type(r[n].labels) : n \in elements(list) } |->
                         Cardinality({ n \in elements(list) :
                                         report_get_requirement_type(r[n].labels) = t }) ],
      matrix     |-> [ k \in 1..Len(list) |->
                         matrix_row(r, sorted_by_number(elements(list))[k]) ],
      orphans    |-> [ k \in DOMAIN SelectSeq(list, LAMBDA n :
                         /\ report_get_requirement_type(r[n].labels) # T_StR
                         /\ extract_links(r[n].body)["traces_to"] = <<>>) |->
                         short_row(r, SelectSeq(list, LAMBDA n :
                           /\ report_get_requirement_type(r[n].labels) # T_StR
                           /\ extract_links(r[n].body)["traces_to"] = <<>>)[k]) ],
      unverified |-> [ k \in DOMAIN SelectSeq(list, LAMBDA n :
                         /\ report_get_requirement_type(r[n].labels) \in REQUIREMENT_TYPES
                         /\ n \notin verified_reqs(r, list)) |->
                         short_row(r, SelectSeq(list, LAMBDA n :
                           /\ report_get_requirement_type(r[n].labels) \in REQUIREMENT_TYPES
                           /\ n \notin verified_reqs(r, list))[k]) ] ]

\* ------------------------------------------------------------------------
\* Both scripts against a collaborator whose requests may fail
\* ------------------------------------------------------------------------

MaxFetchIssues ==
    3

\* The issues of one page of the listing; the script asks for 100.
per_page ==
    2

\* Issues that both scripts find, an architecture decision that only the
\* title fallback of the JSON script finds, and an issue with a phase label
\* only, which the report script filters out.
FetchIssueSet ==
    { Issue(TITLE_LOGIN, <<L_type_requirement_functional, L_functional_requirement>>,
            bold_line("Traces to", 4)),
      Issue(TITLE_TEST, <<L_type_test_case, L_test_case>>,
            plain_line("Traces to", 4)),
      Issue(TITLE_ADR, <<>>, <<>>),
      Issue(TITLE_LOGIN, <<L_phase_02_requirements>>, <<>>) }

FetchRepoSet ==
    [{ISSUE_POOL[k] : k \in 1..MaxFetchIssues} -> FetchIssueSet \cup {NO_ISSUE}]

\* Either script starts with GITHUB_TOKEN set and nothing fetched.
InitFetch ==
    /\ repo \in FetchRepoSet
    /\ script \in {"json", "report"}
    /\ pc = (IF script = "json" THEN "connect" ELSE "request")
    /\ cursor = 0
    /\ all_issues = <<>>
    /\ items = <<>>
    /\ forward_links = <<>>
    /\ backward_links = <<>>
    /\ requirements = <<>>
    /\ requirements_with_adr = {}
    /\ requirements_with_scenario = {}
    /\ requirements_with_test = {}
    /\ requirements_with_any_link = {}
    /\ metrics = <<>>
    /\ previous_output = <<>>
    /\ request_failed = FALSE
    /\ request_succeeded = FALSE
    /\ exit_code = 0
    /\ written = <<>>
    /\ page = (IF script = "report" THEN 1 ELSE 0)
    /\ issues = <<>>
    /\ ClassifyIdle
    /\ ExtractIdle

\* g.get_repo(repo_name): the repository is returned, or the call raises and
\* main() returns 1.
Connect ==
    /\ pc = "connect"
    /\ \/ /\ pc' = "query"
          /\ cursor' = 1
          /\ UNCHANGED <<request_failed, exit_code>>
       \/ /\ pc' = "exit"
          /\ exit_code' = 1
          /\ request_failed' = TRUE
          /\ UNCHANGED cursor
    /\ UNCHANGED <<repo, all_issues, items, forward_links, backward_links,
                   requirements, requirements_with_adr, requirements_with_scenario,
                   requirements_with_test, requirements_with_any_link, metrics,
                   previous_output, script, request_succeeded, written, page,
                   issues, classify_vars, extract_vars>>

\* One pass of  for label in requirement_labels: the query returns its list
\* and the unseen issues are appended, or it raises and only a warning is
\* printed.
LabelQuery ==
    /\ pc = "query"
    /\ cursor <= Len(requirement_labels)
    /\ \/ /\ all_issues' = append_unseen(all_issues,
                             get_issues_labelled(repo, requirement_labels[cursor]))
          /\ request_succeeded' = TRUE
          /\ UNCHANGED request_failed
       \/ /\ request_failed' = TRUE
          /\ UNCHANGED <<all_issues, request_succeeded>>
    /\ cursor' = cursor + 1
    /\ UNCHANGED <<repo, pc, items, forward_links, backward_links,
                   requirements, requirements_with_adr, requirements_with_scenario,
                   requirements_with_test, requirements_with_any_link, metrics,
                   previous_output, script, exit_code, written, page, issues,
                   classify_vars, extract_vars>>

\* After the label loop: with no issue so far, the listing of all issues is
\* asked for and filtered by title, or that request raises and only a
\* warning is printed.  The build loop comes next in either case.
TitleFallback ==
    /\ pc = "query"
    /\ cursor > Len(requirement_labels)
    /\ IF all_issues = <<>>
       THEN \/ /\ all_issues' = fetch_by_title(repo)
               /\ request_succeeded' = TRUE
               /\ UNCHANGED request_failed
            \/ /\ request_failed' = TRUE
               /\ UNCHANGED <<all_issues, request_succeeded>>
       ELSE UNCHANGED <<all_issues, request_failed, request_succeeded>>
    /\ pc' = "build"
    /\ cursor' = 1
    /\ UNCHANGED <<repo, items, forward_links, backward_links,
                   requirements, requirements_with_adr, requirements_with_scenario,
                   requirements_with_test, requirements_with_any_link, metrics,
                   previous_output, script, exit_code, written, page, issues,
                   classify_vars, extract_vars>>

\* The output is written to the file and main() returns 0.
WriteOutput ==
    /\ pc = "done"
    /\ script = "json"
    /\ written' = output
    /\ exit_code' = 0
    /\ pc' = "exit"
    /\ UNCHANGED <<repo, cursor, all_issues, items, forward_links, backward_links,
                   requirements, requirements_with_adr, requirements_with_scenario,
                   requirements_with_test, requirements_with_any_link, metrics,
                   previous_output, script, request_failed, request_succeeded,
                   page, issues, classify_vars, extract_vars>>

\* One pass of the  while True  loop of fetch_all_requirements(): the page
\* comes with status 200 and its issues with a requirement label are
\* appended (an empty page ends the loop), or the request fails and the
\* script exits with status 1.
RequestPage ==
    /\ pc = "request"
    /\ \/ \E page_issues \in {page_of(get_issues_all(repo), page, per_page)} :
            /\ request_succeeded' = TRUE
            /\ IF page_issues = <<>>
               THEN /\ pc' = "matrix"
                    /\ UNCHANGED <<issues, page>>
               ELSE /\ issues' = issues \o SelectSeq(page_issues,
                                   LAMBDA n : has_requirement_label(repo[n].labels))
                    /\ page' = page + 1
                    /\ UNCHANGED pc
            /\ UNCHANGED <<request_failed, exit_code>>
       \/ /\ request_failed' = TRUE
          /\ exit_code' = 1
          /\ pc' = "exit"
          /\ UNCHANGED <<issues, page, request_succeeded>>
    /\ UNCHANGED <<repo, cursor, all_issues, items, forward_links, backward_links,
                   requirements, requirements_with_adr, requirements_with_scenario,
                   requirements_with_test, requirements_with_any_link, metrics,
                   previous_output, script, written, classify_vars, extract_vars>>

\* generate_matrix() after the fetch: the report is printed and the script
\* ends with status 0.
GenerateMatrix ==
    /\ pc = "matrix"
    /\ written' = matrix_report(repo, issues)
    /\ exit_code' = 0
    /\ pc' = "exit"
    /\ UNCHANGED <<repo, cursor, all_issues, items, forward_links, backward_links,
                   requirements, requirements_with_adr, requirements_with_scenario,
                   requirements_with_test, requirements_with_any_link, metrics,
                   previous_output, script, request_failed, request_succeeded,
                   page, issues, classify_vars, extract_vars>>

NextFetch ==
    \/ Connect \/ LabelQuery \/ TitleFallback \/ Build \/ Metrics \/ WriteOutput
    \/ RequestPage \/ GenerateMatrix

SpecFetch ==
    InitFetch /\ [][NextFetch]_vars

\* ------------------------------------------------------------------------
\* Properties
\* ------------------------------------------------------------------------

\* Every identifier the graph mentions, as a source or as a target.
graph_ids ==
    (DOMAIN forward_links) \cup (DOMAIN backward_links)
      \cup UNION {elements(forward_links[a]) : a \in DOMAIN forward_links}
      \cup UNION {elements(backward_links[b]) : b \in DOMAIN backward_links}

\* C1: backward-link symmetry.  After every pass of the build loop, and so in
\* the graph it produces, b is in forward_links[a] exactly when a is in
\* backward_links[b], for all identifiers a and b, whether or not b is an
\* issue of the list and also when a = b.
C1_BackwardLinkSymmetry ==
    \A a \in graph_ids : \A b \in graph_ids :
        (a \in DOMAIN forward_links /\ b \in elements(forward_links[a]))
          <=> (b \in DOMAIN backward_links /\ a \in elements(backward_links[b]))

\* C1, its case: a finished graph with an issue that refers to itself, and
\* with a backward entry for number 2, which is not an issue of the list.
C1_Witness ==
    /\ pc = "done"
    /\ \E a \in DOMAIN forward_links : a \in elements(forward_links[a])
    /\ issue_ref(2) \in DOMAIN backward_links
    /\ issue_ref(2) \notin DOMAIN forward_links

\* The type token a title begins with, in whatever letter case (no token is
\* the beginning of another); <<>> when it begins with none.
type_token_of(t) ==
    LET begun == { k \in DOMAIN TYPE_TOKENS :
                     /\ Len(t) >= Len(TYPE_TOKENS[k])
                     /\ lower(SubSeq(t, 1, Len(TYPE_TOKENS[k]))) = lower(TYPE_TOKENS[k]) }
    IN  IF begun = {} THEN <<>> ELSE TYPE_TOKENS[CHOOSE k \in begun : TRUE]

\* C2: classification priority.  A title that begins with a type token is
\* classified as the type of that token, whatever the labels are.
C2_TitleTokenDecides ==
    (cpc = "done" /\ type_token_of(in_title) # <<>>)
      => out_type = type_token_of(in_title)

\* C3: the exact label match comes before the substring heuristic over the
\* whole label list.  When the title begins with no type token and some
\* label is a key of label_map, the result is the type label_map gives the
\* first such label, wherever it stands and whatever the other labels hold.
C3_ExactLabelBeforeSubstrings ==
    (/\ cpc = "done"
     /\ type_token_of(in_title) = <<>>
     /\ \E i \in DOMAIN in_labels : label_in_map(in_labels[i]))
      => LET first == CHOOSE i \in DOMAIN in_labels :
                        /\ label_in_map(in_labels[i])
                        /\ \A j \in 1..(i - 1) : ~label_in_map(in_labels[j])
         IN  out_type = label_map_get(in_labels[first])

CANONICAL_TYPES ==
    {T_StR, T_REQ_F, T_REQ_NF, T_ADR, T_ARC_C, T_QA_SC, T_TEST, T_UNKNOWN}

\* C4: the classifier returns one of the eight canonical type strings, for
\* every title and every label list.
C4_ResultIsCanonicalType ==
    cpc = "done" => out_type \in CANONICAL_TYPES

no_duplicates(list) ==
    \A i \in DOMAIN list : \A j \in DOMAIN list : list[i] = list[j] => i = j

\* C5: for every body, neither extractor returns a target twice within one
\* category (each list being in the order in which its targets were found).
C5_NoDuplicateTargets ==
    xpc = "done"
      => /\ \A c \in DOMAIN out_links : no_duplicates(out_links[c])
         /\ \A c \in DOMAIN out_report : no_duplicates(out_report[c])

METRIC_NAMES ==
    {"requirement", "requirement_to_ADR", "requirement_to_scenario",
     "requirement_to_test"}

\* C6: when the list has no REQ-F and no REQ-NF issue, each of the four
\* metrics is reported, with coverage_pct = 0, total = 0 and linked = 0.
C6_ZeroRequirementsAllMetricsZero ==
    (pc = "done" /\ requirements = <<>>)
      => \A m \in METRIC_NAMES :
           /\ m \in DOMAIN metrics
           /\ metrics[m].coverage_pct.num = 0
           /\ metrics[m].total = 0
           /\ metrics[m].linked = 0

\* C7: a requirement is counted in requirement_to_ADR.linked exactly when one
\* of its references is the identifier of an item of the graph whose type is
\* ADR; a reference to an issue that is not in the list never counts.
C7_LinkedToADRByGraphNode ==
    pc = "done"
      => \A k \in DOMAIN items :
           items[k].type \in REQUIREMENT_TYPES
             => (items[k].id \in requirements_with_adr
                   <=> \E j \in DOMAIN items :
                         /\ items[j].type = T_ADR
                         /\ items[j].id \in elements(items[k].references))

\* The list holds issue n and n is a requirement.
is_listed_requirement(n) ==
    \E k \in DOMAIN items :
        items[k].id = issue_ref(n) /\ items[k].type \in REQUIREMENT_TYPES

\* C8: with TEST issue #10 of body "Verifies Requirements: #4, #6" and the
\* requirements #4 and #6 in the list, backward_links of #4 and of #6 hold
\* #10, and #4 and #6 are counted in requirement_to_test.linked.
C8_VerifiesRequirementsScenario ==
    (/\ pc = "done"
     /\ \E k \in DOMAIN items : items[k].id = issue_ref(10) /\ items[k].type = T_TEST
     /\ repo[10].body = list_line("Verifies Requirements", 4, 6)
     /\ is_listed_requirement(4)
     /\ is_listed_requirement(6))
      => \A n \in {4, 6} :
           /\ issue_ref(n) \in DOMAIN backward_links
           /\ issue_ref(10) \in elements(backward_links[issue_ref(n)])
           /\ issue_ref(n) \in requirements_with_test

\* Position i of body b lies in a block that a "## Traceability" or
\* "## Traces To" heading begins: after the heading, before the next "##".
in_traceability_block(b, i) ==
    \E h \in 1..(i - 1) :
        /\ b[h] = HASHES
        /\ at(b, h + 1) = SP
        /\ at(b, h + 2).k = "phrase"
        /\ at(b, h + 2).p \in {"Traceability", "Traces To"}
        /\ h + 2 < i
        /\ \A x \in (h + 1)..i : b[x] # HASHES

\* C9: every reference marker of a traceability block, on whatever line of
\* the block, is among the traces_to targets of the body.
C9_TraceabilityBlockScannedInFull ==
    xpc = "done"
      => \A i \in DOMAIN in_body :
           (in_body[i].k = "ref" /\ in_traceability_block(in_body, i))
             => in_list(in_body[i].n, out_links["traces_to"])

\* C10: idempotence.  The second run over the same issue list ends with the
\* items, forward_links, backward_links and metrics of the first.
C10_SecondRunSameOutput ==
    (pc = "done" /\ previous_output # <<>>) => output = previous_output

\* The issues the run has retrieved.
retrieved ==
    IF script = "json" THEN all_issues ELSE issues

\* The issue identifiers of what the run has written: the items of the
\* graph, the rows of the matrix.
written_ids ==
    IF written = <<>> THEN {}
    ELSE IF script = "json" THEN { written.items[k].id : k \in DOMAIN written.items }
    ELSE { written.matrix[k].number : k \in DOMAIN written.matrix }

\* C11: a failed fetch request is fatal only when no issue was obtained.  A
\* run in which a request failed (a label query of the JSON script, a page
\* of the report script) and which has retrieved issues by other requests
\* ends with status 0 and has written its graph and metrics, or its matrix,
\* for exactly the issues retrieved; a run in which a request failed and no
\* request succeeded ends in failure, with a status other than 0.
C11_FetchFailureFatalOnlyWithoutIssues ==
    (pc = "exit" /\ request_failed)
      => /\ retrieved # <<>>
              => /\ exit_code = 0
                 /\ written # <<>>
                 /\ written_ids = { issue_ref(n) : n \in elements(retrieved) }
         /\ (retrieved = <<>> /\ ~request_succeeded) => exit_code # 0

\* Position h of body b holds a reference marker of the bulleted list that
\* follows the emphasized label at positions i .. i+3: the line ends with the
\* colon, between it and the marker there are only list lines ("- #n"), and
\* the marker is the "#n" of one of them.
in_list_under_label(b, i, h) ==
    /\ h > i + 6
    /\ b[i + 4] = NL
    /\ b[h].k = "ref"
    /\ b[h - 1] = SP /\ b[h - 2] = DASH /\ b[h - 3] = NL
    /\ \A x \in (i + 4)..h : b[x] \in {NL, DASH, SP} \/ b[x].k = "ref"

\* C13: section header and list.  When an emphasized label ("**Implements
\* Requirements**:") is followed on the next lines by bulleted reference
\* markers ("- #3", "- #9"), every one of those markers is among the targets
\* of the label's category, the second bullet as much as the first.
C13_EveryBulletOfSectionCaptured ==
    xpc = "done"
      => \A c \in DOMAIN section_patterns :
           \A i \in DOMAIN in_body : \A h \in DOMAIN in_body :
             (/\ bold_label_at(in_body, i, section_patterns[c])
              /\ in_list_under_label(in_body, i, h))
               => in_list(in_body[h].n, out_links[c])

\* The issue number an identifier of the form "#" decimal stands for, among
\* the numbers ns.
number_of(x, ns) ==
    CHOOSE n \in ns : issue_ref(n) = x

\* C12: the references of every item (and forward_links of the item, which
\* is the same list) hold exactly the targets of all link categories of the
\* issue's body, each target once even when several categories name it, in
\* ascending order of the issue numbers (not of the strings: "#2" before
\* "#10"), each written as "#" and the decimal number.
C12_ReferencesMergedUniqueSorted ==
    \A k \in DOMAIN items :
      \E found \in {extract_issue_links(repo[all_issues[k]].body)} :
      \E ns \in {UNION {elements(found[c]) : c \in DOMAIN found}} :
      \E refs \in {items[k].references} :
        /\ forward_links[items[k].id] = refs
        /\ \A n \in ns : \E i \in DOMAIN refs : refs[i] = issue_ref(n)
        /\ \A i \in DOMAIN refs :
             /\ Head(refs[i]) = "#"
             /\ Len(refs[i]) > 1
             /\ \A d \in 2..Len(refs[i]) : refs[i][d] \in elements(DIGITS)
             /\ \E n \in ns : refs[i] = issue_ref(n)
        /\ no_duplicates(refs)
        /\ \A i \in DOMAIN refs : \A j \in DOMAIN refs :
             i < j => number_of(refs[i], ns) < number_of(refs[j], ns)

\* C12, its case: a finished graph with an item whose targets #10 and #2 come
\* from two categories and stand in numeric order, and an item whose single
\* target #10 is named by two categories of its body.
C12_Witness ==
    /\ pc = "done"
    /\ \E k \in DOMAIN items :
         /\ items[k].references = <<issue_ref(2), issue_ref(10)>>
         /\ Cardinality(DOMAIN items[k].link_details) = 2
    /\ \E k \in DOMAIN items :
         /\ items[k].references = <<issue_ref(10)>>
         /\ Cardinality(DOMAIN items[k].link_details) = 2

\* The identifiers of the REQ-F and REQ-NF items built so far.
requirement_item_ids ==
    { items[k].id : k \in { j \in DOMAIN items : items[j].type \in REQUIREMENT_TYPES } }

\* The four linked sets behind the metrics.
linked_sets ==
    { requirements_with_any_link, requirements_with_adr,
      requirements_with_scenario, requirements_with_test }

====
